---- MODULE Spec2Model ----
(***************************************************************************)
(* go-mapbox geocoding client (package geocode, API v6) and the example    *)
(* program that drives it.  A geocode call is one synchronous step: build  *)
(* url.Values from an options struct, hand them to the base client, which  *)
(* issues one HTTP request, and return the decoded response or the error.  *)
(***************************************************************************)
EXTENDS Integers, Sequences, FiniteSets, TLC

(***************************************************************************)
(* Bounds of the model.                                                    *)
(***************************************************************************)
\* how many fields of an options struct the caller sets by hand
MaxSetFields == 1
\* largest Limit the caller asks for
MaxLimit == 2
\* longest []Type list handed to a convenience wrapper
MaxTypes == 2
\* longest []BatchQuery handed to Batch
MaxQueries == 3
\* most features the provider has for one query
MaxFeatures == 2

(***************************************************************************)
(* Strings.  Go strings are TLA+ strings; one-character strings are the    *)
(* bytes.                                                                  *)
(***************************************************************************)
RECURSIVE Join(_, _)
\* strings.Join(elems, sep)
Join(elems, sep) ==
    IF Len(elems) = 0 THEN ""
    ELSE IF Len(elems) = 1 THEN elems[1]
    ELSE elems[1] \o sep \o Join(Tail(elems), sep)

Digit == <<"0", "1", "2", "3", "4", "5", "6", "7", "8", "9">>

RECURSIVE FormatUint(_)
\* strconv.FormatUint(n, 10)
FormatUint(n) ==
    IF n < 10 THEN Digit[n + 1]
    ELSE FormatUint(n \div 10) \o Digit[(n % 10) + 1]

RECURSIVE Pow10(_)
Pow10(k) == IF k = 0 THEN 1 ELSE 10 * Pow10(k - 1)

RECURSIVE PadLeft(_, _)
\* s left-padded with "0" to width w
PadLeft(s, w) == IF Len(s) >= w THEN s ELSE PadLeft("0" \o s, w)

(***************************************************************************)
(* float64 values.  A value is sign * mant / 10^scale, mant carrying no    *)
(* trailing zero: -74.0 is [neg TRUE, mant 74, scale 0], 40.7 is           *)
(* [neg FALSE, mant 407, scale 1].                                         *)
(***************************************************************************)
F(neg, mant, scale) == [neg |-> neg, mant |-> mant, scale |-> scale]

\* fmt's verb %f: fixed point, six digits after the point, rounded
SprintfF(x) ==
    LET micro == IF x.scale <= 6
                 THEN x.mant * Pow10(6 - x.scale)
                 ELSE LET d == Pow10(x.scale - 6)
                      IN  (x.mant \div d) + (IF 2 * (x.mant % d) >= d THEN 1 ELSE 0)
    IN  (IF x.neg THEN "-" ELSE "")
            \o FormatUint(micro \div 1000000) \o "."
            \o PadLeft(FormatUint(micro % 1000000), 6)

\* strconv.FormatFloat(x, 'f', -1, 64): the shortest digits that give x back
FormatFloat(x) ==
    LET d == Pow10(x.scale)
    IN  (IF x.neg THEN "-" ELSE "")
            \o FormatUint(x.mant \div d)
            \o (IF x.scale = 0 THEN ""
                ELSE "." \o PadLeft(FormatUint(x.mant % d), x.scale))

(***************************************************************************)
(* Options structs.  A tag table lists a struct's fields in declaration    *)
(* order with the key and the kind its `url:"key,omitempty"` tag and Go    *)
(* type give.                                                              *)
(***************************************************************************)
T(field, key, kind) == [field |-> field, key |-> key, kind |-> kind]

ForwardRequestOpts ==
    << T("Country", "country", "string"),
       T("Proximity", "proximity", "string"),
       T("Types", "types", "string"),
       T("Autocomplete", "autocomplete", "bool"),
       T("BBox", "bbox", "string"),
       T("Limit", "limit", "uint"),
       T("Language", "language", "string"),
       T("Worldview", "worldview", "string"),
       T("Format", "format", "string"),
       T("Permanent", "permanent", "bool") >>

StructuredInputOpts ==
    << T("AddressLine1", "address_line1", "string"),
       T("AddressNumber", "address_number", "string"),
       T("Street", "street", "string"),
       T("Block", "block", "string"),
       T("Place", "place", "string"),
       T("Region", "region", "string"),
       T("Postcode", "postcode", "string"),
       T("Locality", "locality", "string"),
       T("Neighborhood", "neighborhood", "string"),
       T("Country", "country", "string"),
       T("Autocomplete", "autocomplete", "bool"),
       T("BBox", "bbox", "string"),
       T("Format", "format", "string"),
       T("Language", "language", "string"),
       T("Limit", "limit", "uint"),
       T("Proximity", "proximity", "string"),
       T("Types", "types", "string"),
       T("Worldview", "worldview", "string"),
       T("Permanent", "permanent", "bool") >>

ReverseRequestOpts ==
    << T("Types", "types", "string"),
       T("Limit", "limit", "uint"),
       T("Country", "country", "string"),
       T("Language", "language", "string"),
       T("Worldview", "worldview", "string"),
       T("Permanent", "permanent", "bool") >>

BatchRequestOpts ==
    << T("Permanent", "permanent", "bool") >>

\* the tag table of each kind of options struct
TagsOf(kind) ==
    CASE kind = "forward"    -> ForwardRequestOpts
      [] kind = "structured" -> StructuredInputOpts
      [] kind = "reverse"    -> ReverseRequestOpts
      [] kind = "batch"      -> BatchRequestOpts

\* Go's zero value of a field
ZeroValue(kind) ==
    CASE kind = "string" -> ""
      [] kind = "bool"   -> FALSE
      [] kind = "uint"   -> 0
      [] kind = "int"    -> 0
      [] kind = "float64" -> F(FALSE, 0, 0)

Range(seq) == {seq[i] : i \in 1..Len(seq)}

\* the struct literal T{}: every field at its zero value
ZeroStruct(tags) ==
    [f \in {t.field : t \in Range(tags)} |->
        ZeroValue((CHOOSE t \in Range(tags) : t.field = f).kind)]

(***************************************************************************)
(* github.com/google/go-querystring/query as the tags drive it.            *)
(***************************************************************************)
\* omitempty: the field is left out when it holds its type's empty value
IsEmptyValue(kind, v) ==
    CASE kind = "string" -> v = ""
      [] kind = "bool"   -> v = FALSE
      [] kind = "uint"   -> v = 0
      [] kind = "int"    -> v = 0
      [] kind = "float64" -> v.mant = 0

\* the text a field's value is sent as
ValueString(kind, v) ==
    CASE kind = "string" -> v
      [] kind = "bool"   -> IF v THEN "true" ELSE "false"
      [] kind = "uint"   -> FormatUint(v)

\* a bool field tagged without omitempty
EncodedBoolNoOmit(t, s) == t.kind = "bool" \/ ~IsEmptyValue(t.kind, s[t.field])

\* whether field t of struct s is encoded
Encoded(t, s) == ~IsEmptyValue(t.kind, s[t.field])

\* query.Values(&s): url.Values with one key per field that is not omitted
Values(tags, s) ==
    [k \in {t.key : t \in {u \in Range(tags) : Encoded(u, s)}} |->
        LET t == CHOOSE u \in Range(tags) : u.key = k
        IN  ValueString(t.kind, s[t.field])]

\* url.Values{}
NoValues == [k \in {} |-> ""]

\* v.Set(key, value)
Set(v, key, value) ==
    [k \in (DOMAIN v) \cup {key} |-> IF k = key THEN value ELSE v[k]]

(***************************************************************************)
(* The query string on the wire (net/url): Encode writes key=value pairs   *)
(* joined by "&", keys in sorted order, both sides escaped; ParseQuery     *)
(* reads such a string back into url.Values.                               *)
(***************************************************************************)
\* every key a geocode request can carry, as sort.Strings orders them
SortedKeys ==
    << "address_line1", "address_number", "autocomplete", "bbox", "block",
       "country", "format", "language", "latitude", "limit", "locality",
       "longitude", "neighborhood", "permanent", "place", "postcode",
       "proximity", "q", "region", "street", "types", "worldview" >>

\* url.QueryEscape of one byte: unreserved bytes stay, a space is "+",
\* anything else is %XX
EscapeByte(c) ==
    CASE c = " " -> "+"
      [] c = "," -> "%2C"
      [] c = "&" -> "%26"
      [] c = "=" -> "%3D"
      [] c = "+" -> "%2B"
      [] c = "%" -> "%25"
      [] OTHER   -> c

RECURSIVE QueryEscape(_)
QueryEscape(s) ==
    IF Len(s) = 0 THEN ""
    ELSE EscapeByte(SubSeq(s, 1, 1)) \o QueryEscape(SubSeq(s, 2, Len(s)))

\* the byte a %XX triple stands for
UnescapeHex(xx) ==
    CASE xx = "2C" -> ","
      [] xx = "26" -> "&"
      [] xx = "3D" -> "="
      [] xx = "2B" -> "+"
      [] xx = "25" -> "%"
      [] xx = "20" -> " "

RECURSIVE QueryUnescape(_)
QueryUnescape(s) ==
    IF Len(s) = 0 THEN ""
    ELSE LET c == SubSeq(s, 1, 1)
         IN  IF c = "+" THEN " " \o QueryUnescape(SubSeq(s, 2, Len(s)))
             ELSE IF c = "%"
                  THEN UnescapeHex(SubSeq(s, 2, 3)) \o QueryUnescape(SubSeq(s, 4, Len(s)))
                  ELSE c \o QueryUnescape(SubSeq(s, 2, Len(s)))

\* url.Values.Encode
Encode(v) ==
    LET keys == SelectSeq(SortedKeys, LAMBDA k : k \in DOMAIN v)
    IN  Join([i \in 1..Len(keys) |->
                QueryEscape(keys[i]) \o "=" \o QueryEscape(v[keys[i]])], "&")

RECURSIVE IndexByte(_, _, _)
\* the first position >= i of byte c in s, 0 when there is none
IndexByte(s, c, i) ==
    IF i > Len(s) THEN 0
    ELSE IF SubSeq(s, i, i) = c THEN i
    ELSE IndexByte(s, c, i + 1)

RECURSIVE Split(_, _)
\* strings.Split(s, c) for a one-byte separator
Split(s, c) ==
    LET i == IndexByte(s, c, 1)
    IN  IF i = 0 THEN <<s>>
        ELSE <<SubSeq(s, 1, i - 1)>> \o Split(SubSeq(s, i + 1, Len(s)), c)

RECURSIVE ParsePairs(_, _)
\* the key=value pairs read one after the other into the values m; of a
\* key that comes twice the first value is the one Get gives
ParsePairs(parts, m) ==
    IF Len(parts) = 0 THEN m
    ELSE LET p == Head(parts)
             i == IndexByte(p, "=", 1)
             k == QueryUnescape(IF i = 0 THEN p ELSE SubSeq(p, 1, i - 1))
             v == QueryUnescape(IF i = 0 THEN "" ELSE SubSeq(p, i + 1, Len(p)))
         IN  ParsePairs(Tail(parts),
                        IF p = "" \/ k \in DOMAIN m THEN m ELSE Set(m, k, v))

\* url.ParseQuery: the first value of every key of the query string
ParseQuery(raw) == ParsePairs(Split(raw, "&"), NoValues)

(***************************************************************************)
(* Errors.                                                                 *)
(***************************************************************************)
\* Go's nil error
NoErr == "nil"
ErrorAPIUnauthorized == "Mapbox API error unauthorized"
ErrorAPILimitExceeded == "Mapbox API error api rate limit exceeded"
\* the error NewBase fails with on an empty token
ErrMissingToken == "missing token"
\* the HTTP round trip failed: there is no response
ErrTransport == "transport failure"
\* the response body is not the JSON the target type expects
ErrDecode == "decode failure"

(***************************************************************************)
(* The provider.  What it does with one request is the call's environment: *)
(* env.kind says how the round trip ends and env.n how many features the   *)
(* provider has for a query.  An answer follows the provider's API: a      *)
(* collection is tagged "FeatureCollection" and holds no more features     *)
(* than the limit asked for; a batch is answered with one collection per   *)
(* query of the body, in the body's order.                                 *)
(***************************************************************************)
EnvKinds == {"ok", "unauthorized", "ratelimit", "transport", "malformed"}

Envs == {[kind |-> k, n |-> 0] : k \in EnvKinds \ {"ok"}}
            \cup {[kind |-> "ok", n |-> i] : i \in 0..MaxFeatures}

Min(a, b) == IF a <= b THEN a ELSE b

\* the number a decimal string stands for
ParseUint(str) == CHOOSE n \in 0..(MaxLimit + 1) : FormatUint(n) = str

\* base.FeatureCollection as the provider fills it for a query it has n
\* features for, asked with `params` (key -> value); each feature names the
\* query it matches
Collection(params, n, match) ==
    LET k == IF "limit" \in DOMAIN params THEN Min(n, params["limit"]) ELSE n
    IN  [Type |-> "FeatureCollection",
         Features |-> [i \in 1..k |-> [rank |-> i, match |-> match]]]

\* the JSON document the provider answers a request with
ProviderAnswer(request, env) ==
    IF request.method = "POST"
    THEN [batch |-> [i \in 1..Len(request.body) |->
                        Collection(request.body[i], env.n, request.body[i])]]
    ELSE LET q == ParseQuery(request.rawQuery)
             params == IF "limit" \in DOMAIN q
                       THEN [limit |-> ParseUint(q["limit"])]
                       ELSE NoValues
         IN  Collection(params, env.n, request.path)

(***************************************************************************)
(* package base: the client that holds the token and issues the requests.  *)
(***************************************************************************)
\* a nil *base.Base
NilBase == [nil |-> TRUE, token |-> ""]

\* base.NewBase(token)
NewBase(token) ==
    IF token = ""
    THEN [base |-> NilBase, err |-> ErrMissingToken]
    ELSE [base |-> [nil |-> FALSE, token |-> token], err |-> NoErr]

\* one HTTP round trip and the decoding of its answer into inst:
\* what was sent, what inst holds afterwards, and the error
RoundTrip(request, inst, decoded, env) ==
    [sent |-> <<request>>,
     inst |-> IF env.kind = "ok" THEN decoded ELSE inst,
     err  |-> CASE env.kind = "ok"           -> NoErr
                [] env.kind = "unauthorized" -> ErrorAPIUnauthorized
                [] env.kind = "ratelimit"    -> ErrorAPILimitExceeded
                [] env.kind = "transport"    -> ErrTransport
                [] env.kind = "malformed"    -> ErrDecode]

\* (*Base).QueryBase(path, &v, &inst): GET path?v, the answer decoded into a
\* response that embeds *base.FeatureCollection
QueryBase(b, path, v, inst, env) ==
    LET request == [method |-> "GET", path |-> path, query |-> v,
                    rawQuery |-> Encode(v), body |-> <<>>, token |-> b.token]
    IN  RoundTrip(request, inst,
                  [FeatureCollection |-> <<ProviderAnswer(request, env)>>], env)

\* (*Base).QueryWithBodyBase(path, &v, body, &inst): POST path?v with the
\* JSON body, the answer decoded into a BatchResponse
QueryWithBodyBase(b, path, v, body, inst, env) ==
    LET request == [method |-> "POST", path |-> path, query |-> v,
                    rawQuery |-> Encode(v), body |-> body, token |-> b.token]
    IN  RoundTrip(request, inst,
                  [Batch |-> ProviderAnswer(request, env).batch], env)

(***************************************************************************)
(* package geocode.                                                        *)
(***************************************************************************)
apiName == "search"
apiVersion == "geocode/v6"

\* fmt.Sprintf("%s/%s/<endpoint>", apiName, apiVersion)
Endpoint(name) == apiName \o "/" \o apiVersion \o "/" \o name

\* the Type constants
Country == "country"
Region == "region"
Postcode == "postcode"
District == "district"
Place == "place"
Locality == "locality"
Neighborhood == "neighborhood"
Street == "street"
Block == "block"
Address == "address"
SecondaryAddress == "secondary_address"

\* NewGeocode(base)
NewGeocode(b) == [nil |-> FALSE, base |-> b]

\* no Geocode has been made
NoGeocode == [nil |-> TRUE, base |-> NilBase]

\* a nil options pointer, and a pointer to a struct that holds s
NilReq == [nil |-> TRUE]
Ref(s) == [nil |-> FALSE, val |-> s]

\* ForwardResponse{} and ReverseResponse{}: the embedded pointer is nil
EmptyResponse == [FeatureCollection |-> <<>>]

\* BatchResponse{}
EmptyBatchResponse == [Batch |-> <<>>]

\* what a call did: the struct its options pointer leads to afterwards, the
\* requests sent, and the two values returned
Ran(h, sent, resp, err) == [opts |-> h, sent |-> sent, resp |-> resp, err |-> err]

\* the request is sent a second time when it fails
ForwardRetries(g, place, req, env) ==
    LET r == IF req.nil THEN Ref(ZeroStruct(ForwardRequestOpts)) ELSE req
        v == Set(Values(ForwardRequestOpts, r.val), "q", place)
        q == QueryBase(g.base, Endpoint("forward"), v, EmptyResponse, env)
        again == QueryBase(g.base, Endpoint("forward"), v, q.inst, env)
    IN  IF q.err = NoErr THEN Ran(r.val, q.sent, q.inst, q.err)
        ELSE Ran(r.val, q.sent \o again.sent, again.inst, again.err)

\* the values are made from the search text alone
ForwardIgnoresOptions(g, place, req, env) ==
    LET r == IF req.nil THEN Ref(ZeroStruct(ForwardRequestOpts)) ELSE req
        v == Set(NoValues, "q", place)
        q == QueryBase(g.base, Endpoint("forward"), v, EmptyResponse, env)
    IN  Ran(r.val, q.sent, q.inst, q.err)

\* Forward(place, req)
Forward(g, place, req, env) ==
    LET r == IF req.nil THEN Ref(ZeroStruct(ForwardRequestOpts)) ELSE req
        v == Set(Values(ForwardRequestOpts, r.val), "q", place)
        q == QueryBase(g.base, Endpoint("forward"), v, EmptyResponse, env)
    IN  Ran(r.val, q.sent, q.inst, q.err)

\* an empty search text is set next to the structured fields
ForwardStructuredSetsQ(g, req, env) ==
    LET v == IF req.nil THEN NoValues ELSE Values(StructuredInputOpts, req.val)
        q == QueryBase(g.base, Endpoint("forward"), Set(v, "q", ""),
                       EmptyResponse, env)
    IN  Ran(IF req.nil THEN ZeroStruct(StructuredInputOpts) ELSE req.val,
            q.sent, q.inst, q.err)

\* ForwardStructured(req); query.Values of a nil pointer is empty
ForwardStructured(g, req, env) ==
    LET v == IF req.nil THEN NoValues ELSE Values(StructuredInputOpts, req.val)
        q == QueryBase(g.base, Endpoint("forward"), v, EmptyResponse, env)
    IN  Ran(IF req.nil THEN ZeroStruct(StructuredInputOpts) ELSE req.val,
            q.sent, q.inst, q.err)

\* the error of the query is dropped
ReverseDropsError(g, loc, req, env) ==
    LET r == IF req.nil THEN Ref(ZeroStruct(ReverseRequestOpts)) ELSE req
        v == Set(Set(Values(ReverseRequestOpts, r.val),
                     "longitude", FormatFloat(loc.Longitude)),
                 "latitude", FormatFloat(loc.Latitude))
        q == QueryBase(g.base, Endpoint("reverse"), v, EmptyResponse, env)
    IN  Ran(r.val, q.sent, q.inst, NoErr)

\* the response is handed to the query by value: what is decoded is lost
ReverseByValue(g, loc, req, env) ==
    LET r == IF req.nil THEN Ref(ZeroStruct(ReverseRequestOpts)) ELSE req
        v == Set(Set(Values(ReverseRequestOpts, r.val),
                     "longitude", FormatFloat(loc.Longitude)),
                 "latitude", FormatFloat(loc.Latitude))
        q == QueryBase(g.base, Endpoint("reverse"), v, EmptyResponse, env)
    IN  Ran(r.val, q.sent, EmptyResponse, q.err)

\* Reverse(loc, req)
Reverse(g, loc, req, env) ==
    LET r == IF req.nil THEN Ref(ZeroStruct(ReverseRequestOpts)) ELSE req
        v == Set(Set(Values(ReverseRequestOpts, r.val),
                     "longitude", FormatFloat(loc.Longitude)),
                 "latitude", FormatFloat(loc.Latitude))
        q == QueryBase(g.base, Endpoint("reverse"), v, EmptyResponse, env)
    IN  Ran(r.val, q.sent, q.inst, q.err)

\* BatchQuery and its `json:"key,omitempty"` tags
BatchQuery ==
    << T("Q", "q", "string"),
       T("Types", "types", "string"),
       T("BBox", "bbox", "string"),
       T("Limit", "limit", "int"),
       T("Country", "country", "string"),
       T("Language", "language", "string"),
       T("AddressLine1", "address_line1", "string"),
       T("AddressNumber", "address_number", "string"),
       T("Street", "street", "string"),
       T("Block", "block", "string"),
       T("Place", "place", "string"),
       T("Region", "region", "string"),
       T("Postcode", "postcode", "string"),
       T("Locality", "locality", "string"),
       T("Neighborhood", "neighborhood", "string"),
       T("Longitude", "longitude", "float64"),
       T("Latitude", "latitude", "float64"),
       T("Autocomplete", "autocomplete", "bool"),
       T("Proximity", "proximity", "string"),
       T("Worldview", "worldview", "string"),
       T("Format", "format", "string") >>

\* json.Marshal of one BatchQuery: an object with the fields not omitted
MarshalQuery(bq) ==
    [k \in {t.key : t \in {u \in Range(BatchQuery) : Encoded(u, bq)}} |->
        bq[(CHOOSE u \in Range(BatchQuery) : u.key = k).field]]

\* json.Marshal of []BatchQuery: the array of the objects, in order
MarshalQueries(queries) == [i \in 1..Len(queries) |-> MarshalQuery(queries[i])]

\* the last query is left out of the body
BatchTruncated(g, queries, req, env) ==
    LET r == IF req.nil THEN Ref(ZeroStruct(BatchRequestOpts)) ELSE req
        queryValues == Values(BatchRequestOpts, r.val)
        body == MarshalQueries(SubSeq(queries, 1, Len(queries) - 1))
        q == QueryWithBodyBase(g.base, Endpoint("batch"), queryValues,
                               body, EmptyBatchResponse, env)
    IN  Ran(r.val, q.sent, q.inst, q.err)

\* the response starts with one empty collection per query
BatchPreallocated(g, queries, req, env) ==
    LET r == IF req.nil THEN Ref(ZeroStruct(BatchRequestOpts)) ELSE req
        queryValues == Values(BatchRequestOpts, r.val)
        resp == [Batch |-> [i \in 1..Len(queries) |->
                              [Type |-> "", Features |-> <<>>]]]
        q == QueryWithBodyBase(g.base, Endpoint("batch"), queryValues,
                               MarshalQueries(queries), resp, env)
    IN  Ran(r.val, q.sent, q.inst, q.err)

\* Batch(queries, req)
Batch(g, queries, req, env) ==
    LET r == IF req.nil THEN Ref(ZeroStruct(BatchRequestOpts)) ELSE req
        queryValues == Values(BatchRequestOpts, r.val)
        q == QueryWithBodyBase(g.base, Endpoint("batch"), queryValues,
                               MarshalQueries(queries), EmptyBatchResponse, env)
    IN  Ran(r.val, q.sent, q.inst, q.err)

\* every name followed by a separator
typesToStringTrailing(types) ==
    IF Len(types) = 0 THEN ""
    ELSE Join([i \in 1..Len(types) |-> types[i] \o ","], "")

\* typesToString(types)
typesToString(types) ==
    IF Len(types) = 0 THEN ""
    ELSE LET stringTypes == [i \in 1..Len(types) |-> types[i]]
         IN  Join(stringTypes, ",")

\* proximityToString(proximity)
proximityToString(proximity) ==
    IF Len(proximity) # 2 THEN ""
    ELSE SprintfF(proximity[1]) \o "," \o SprintfF(proximity[2])

\* bboxToString(bbox)
bboxToString(bbox) ==
    IF Len(bbox) # 4 THEN ""
    ELSE SprintfF(bbox[1]) \o "," \o SprintfF(bbox[2]) \o ","
            \o SprintfF(bbox[3]) \o "," \o SprintfF(bbox[4])

\* ForwardWithTypes(place, types, req)
ForwardWithTypes(g, place, types, req, env) ==
    LET r  == IF req.nil THEN Ref(ZeroStruct(ForwardRequestOpts)) ELSE req
        r2 == IF Len(types) > 0
              THEN Ref([r.val EXCEPT !.Types = typesToString(types)])
              ELSE r
    IN  Forward(g, place, r2, env)

\* ForwardWithProximity(place, proximity, req)
ForwardWithProximity(g, place, proximity, req, env) ==
    LET r  == IF req.nil THEN Ref(ZeroStruct(ForwardRequestOpts)) ELSE req
        r2 == IF Len(proximity) = 2
              THEN Ref([r.val EXCEPT !.Proximity = proximityToString(proximity)])
              ELSE r
    IN  Forward(g, place, r2, env)

\* the field is written whatever the length of the box
ForwardWithBBoxAlways(g, place, bbox, req, env) ==
    LET r  == IF req.nil THEN Ref(ZeroStruct(ForwardRequestOpts)) ELSE req
        r2 == Ref([r.val EXCEPT !.BBox = bboxToString(bbox)])
    IN  Forward(g, place, r2, env)

\* ForwardWithBBox(place, bbox, req)
ForwardWithBBox(g, place, bbox, req, env) ==
    LET r  == IF req.nil THEN Ref(ZeroStruct(ForwardRequestOpts)) ELSE req
        r2 == IF Len(bbox) = 4
              THEN Ref([r.val EXCEPT !.BBox = bboxToString(bbox)])
              ELSE r
    IN  Forward(g, place, r2, env)

\* with nil options the types are not set: Reverse is called with nil
ReverseWithTypesNilSkips(g, loc, types, req, env) ==
    LET r2 == IF req.nil THEN req
              ELSE IF Len(types) > 0
              THEN Ref([req.val EXCEPT !.Types = typesToString(types)])
              ELSE req
    IN  Reverse(g, loc, r2, env)

\* ReverseWithTypes(loc, types, req)
ReverseWithTypes(g, loc, types, req, env) ==
    LET r  == IF req.nil THEN Ref(ZeroStruct(ReverseRequestOpts)) ELSE req
        r2 == IF Len(types) > 0
              THEN Ref([r.val EXCEPT !.Types = typesToString(types)])
              ELSE r
    IN  Reverse(g, loc, r2, env)

\* the flag is assigned whatever the argument says
ForwardLegacyAssigns(g, place, req, permanent, env) ==
    LET r  == IF req.nil THEN Ref(ZeroStruct(ForwardRequestOpts)) ELSE req
        r2 == IF Len(permanent) > 0
              THEN Ref([r.val EXCEPT !.Permanent = permanent[1]])
              ELSE r
    IN  Forward(g, place, r2, env)

\* ForwardLegacy(place, req, permanent...)
ForwardLegacy(g, place, req, permanent, env) ==
    LET r  == IF req.nil THEN Ref(ZeroStruct(ForwardRequestOpts)) ELSE req
        r2 == IF Len(permanent) > 0 /\ permanent[1]
              THEN Ref([r.val EXCEPT !.Permanent = TRUE])
              ELSE r
    IN  Forward(g, place, r2, env)

\* ReverseLegacy(loc, req)
ReverseLegacy(g, loc, req, env) == Reverse(g, loc, req, env)

(***************************************************************************)
(* The caller: the example program and the tests.  It reads the token,     *)
(* makes the base client and the Geocode, fills an options struct field by *)
(* field and calls the operations, each with the struct or with nil; a     *)
(* response is read and let go of before the next call is made.            *)
(***************************************************************************)
VARIABLES
    token,    \* what the environment variable MAPBOX_TOKEN holds
    pc,       \* where the caller is: "start", "client", "ready" or "fatal"
    base,     \* the *base.Base NewBase returned
    newErr,   \* the error NewBase returned
    gc,       \* the *Geocode
    opts,     \* the caller's options struct: [kind, val]
    last      \* the last call: its arguments, what the provider did, the
              \* requests it sent, its results

vars == <<token, pc, base, newErr, gc, opts, last>>

\* what MAPBOX_TOKEN may hold
Tokens == {"", "pk.test"}
Places == {"New York"}
TypeSamples == {Address, Place}

\* the sequences a caller cuts from seq: its prefixes
Prefixes(seq) == {SubSeq(seq, 1, k) : k \in 0..Len(seq)}

\* []float64 proximity arguments: nothing, one number, {-74.0, 40.7} of the
\* migration guide, the helperMethodsExample pair with a seventh decimal, and
\* three numbers
Proximities ==
    Prefixes(<<F(TRUE, 74, 0), F(FALSE, 407, 1), F(FALSE, 125, 1)>>)
        \cup {<<F(TRUE, 739682851, 7), F(FALSE, 40785091, 6)>>}

\* base.BoundingBox arguments: west, south, east, north, and shorter and
\* longer ones
BBoxes ==
    Prefixes(<<F(TRUE, 771, 1), F(FALSE, 388, 1), F(TRUE, 769, 1),
               F(FALSE, 39, 0), F(FALSE, 1, 0)>>)
Locations ==
    { [Longitude |-> F(TRUE, 77036556, 6), Latitude |-> F(FALSE, 38897708, 6)],
      [Longitude |-> F(FALSE, 72438939, 6), Latitude |-> F(FALSE, 34074122, 6)] }

\* the three queries of batchGeocodingExample
QuerySamples ==
    LET z == ZeroStruct(BatchQuery)
    IN  { [z EXCEPT !.Q = "New York City", !.Types = "place",
                    !.Country = "us", !.Limit = 1],
          [z EXCEPT !.Longitude = F(TRUE, 73986136, 6),
                    !.Latitude = F(FALSE, 40748895, 6), !.Types = "address"],
          [z EXCEPT !.AddressNumber = "123", !.Street = "Main Street",
                    !.Place = "Boston", !.Region = "MA", !.Country = "us"] }

\* the sequences over S of length at most n
SeqUpTo(S, n) == UNION {[1..k -> S] : k \in 0..n}

\* the values a caller sets a field of kind k named f to
Samples(t) ==
    CASE t.kind = "bool" -> {TRUE}
      [] t.kind = "uint" -> 1..MaxLimit
      [] t.field = "Types" -> {"address"}
      [] t.field = "Proximity" -> {"-74.0,40.7"}
      [] t.field = "BBox" -> {"-77.1,38.8,-76.9,39.0"}
      [] OTHER -> {"us"}

NoOpts == [kind |-> "none"]
NoCall == [op |-> "none"]

\* whether the caller has set field t of struct s
IsSet(t, s) == s[t.field] # ZeroValue(t.kind)

\* how many fields of the caller's struct are set
SetFields(tags, s) == Cardinality({t \in Range(tags) : IsSet(t, s)})

\* the error of NewBase is not looked at
OnNewBaseErrorIgnored(err) == "client"

\* main: `if err != nil { log.Fatal(...) }` after NewBase
OnNewBaseError(err) == IF err # NoErr THEN "fatal" ELSE "client"

Init ==
    /\ token \in Tokens
    /\ pc = "start"
    /\ base = NilBase
    /\ newErr = NoErr
    /\ gc = NoGeocode
    /\ opts = NoOpts
    /\ last = NoCall

\* main: read the token, make the base client, stop on its error
MakeBase ==
    /\ pc = "start"
    /\ LET r == NewBase(token)
       IN  /\ base' = r.base
           /\ newErr' = r.err
           /\ pc' = OnNewBaseError(r.err)
    /\ UNCHANGED <<token, gc, opts, last>>

\* main: gc := geocode.NewGeocode(b)
MakeGeocode ==
    /\ pc = "client"
    /\ gc' = NewGeocode(base)
    /\ pc' = "ready"
    /\ UNCHANGED <<token, base, newErr, opts, last>>

\* the caller declares an options struct: var reqOpt T
NewOpts ==
    /\ pc = "ready"
    /\ last = NoCall
    /\ \E kind \in {"forward", "structured", "reverse", "batch"} :
         opts' = [kind |-> kind, val |-> ZeroStruct(TagsOf(kind))]
    /\ UNCHANGED <<token, pc, base, newErr, gc, last>>

\* the caller's struct goes out of scope
DropOpts ==
    /\ pc = "ready"
    /\ last = NoCall
    /\ opts # NoOpts
    /\ opts' = NoOpts
    /\ UNCHANGED <<token, pc, base, newErr, gc, last>>

\* the caller assigns one field: reqOpt.Limit = 1
SetField ==
    /\ pc = "ready"
    /\ last = NoCall
    /\ opts.kind # "none"
    /\ SetFields(TagsOf(opts.kind), opts.val) < MaxSetFields
    /\ \E t \in Range(TagsOf(opts.kind)) : \E x \in Samples(t) :
         /\ ~IsSet(t, opts.val)
         /\ opts' = [opts EXCEPT !.val[t.field] = x]
    /\ UNCHANGED <<token, pc, base, newErr, gc, last>>

\* the options pointer a call of an operation on `kind` structs passes: nil
\* while the caller holds no struct, else the struct it declared for the call
Reqs(kind) ==
    IF opts = NoOpts THEN {NilReq}
    ELSE IF /\ opts.kind = kind
            /\ SetFields(TagsOf(kind), opts.val) <= MaxSetFields
         THEN {Ref(opts.val)}
         ELSE {}

\* a call returns: the caller's struct holds what the call left in it
Returns(op, args, req, env, run) ==
    /\ last' = [op |-> op, args |-> args, req |-> req, env |-> env,
                sent |-> run.sent, resp |-> run.resp, err |-> run.err]
    /\ opts' = IF req.nil THEN opts ELSE [opts EXCEPT !.val = run.opts]
    /\ UNCHANGED <<token, pc, base, newErr, gc>>

CallForward ==
    /\ pc = "ready"
    /\ last = NoCall
    /\ \E place \in Places, req \in Reqs("forward"), env \in Envs :
         Returns("Forward", [place |-> place], req, env, Forward(gc, place, req, env))

CallForwardStructured ==
    /\ pc = "ready"
    /\ last = NoCall
    /\ \E req \in Reqs("structured"), env \in Envs :
         Returns("ForwardStructured", <<>>, req, env, ForwardStructured(gc, req, env))

CallReverse ==
    /\ pc = "ready"
    /\ last = NoCall
    /\ \E loc \in Locations, req \in Reqs("reverse"), env \in Envs :
         Returns("Reverse", [loc |-> loc], req, env, Reverse(gc, loc, req, env))

CallBatch ==
    /\ pc = "ready"
    /\ last = NoCall
    /\ \E queries \in SeqUpTo(QuerySamples, MaxQueries), req \in Reqs("batch"),
          env \in Envs :
         Returns("Batch", [queries |-> queries], req, env, Batch(gc, queries, req, env))

CallForwardWithTypes ==
    /\ pc = "ready"
    /\ last = NoCall
    /\ \E place \in Places, types \in SeqUpTo(TypeSamples, MaxTypes),
          req \in Reqs("forward"), env \in Envs :
         Returns("ForwardWithTypes", [place |-> place, types |-> types], req, env,
                 ForwardWithTypes(gc, place, types, req, env))

CallForwardWithProximity ==
    /\ pc = "ready"
    /\ last = NoCall
    /\ \E place \in Places, proximity \in Proximities,
          req \in Reqs("forward"), env \in Envs :
         Returns("ForwardWithProximity", [place |-> place, proximity |-> proximity], req, env,
                 ForwardWithProximity(gc, place, proximity, req, env))

CallForwardWithBBox ==
    /\ pc = "ready"
    /\ last = NoCall
    /\ \E place \in Places, bbox \in BBoxes,
          req \in Reqs("forward"), env \in Envs :
         Returns("ForwardWithBBox", [place |-> place, bbox |-> bbox], req, env,
                 ForwardWithBBox(gc, place, bbox, req, env))

CallReverseWithTypes ==
    /\ pc = "ready"
    /\ last = NoCall
    /\ \E loc \in Locations, types \in SeqUpTo(TypeSamples, MaxTypes),
          req \in Reqs("reverse"), env \in Envs :
         Returns("ReverseWithTypes", [loc |-> loc, types |-> types], req, env,
                 ReverseWithTypes(gc, loc, types, req, env))

CallForwardLegacy ==
    /\ pc = "ready"
    /\ last = NoCall
    /\ \E place \in Places, permanent \in SeqUpTo(BOOLEAN, 1),
          req \in Reqs("forward"), env \in Envs :
         Returns("ForwardLegacy", [place |-> place, permanent |-> permanent], req, env,
                 ForwardLegacy(gc, place, req, permanent, env))

CallReverseLegacy ==
    /\ pc = "ready"
    /\ last = NoCall
    /\ \E loc \in Locations, req \in Reqs("reverse"), env \in Envs :
         Returns("ReverseLegacy", [loc |-> loc], req, env,
                 ReverseLegacy(gc, loc, req, env))

\* the caller has read the response and the error and lets go of them
Discard ==
    /\ last # NoCall
    /\ last' = NoCall
    /\ UNCHANGED <<token, pc, base, newErr, gc, opts>>

Next ==
    \/ MakeBase
    \/ MakeGeocode
    \/ NewOpts
    \/ DropOpts
    \/ SetField
    \/ CallForward
    \/ CallForwardStructured
    \/ CallReverse
    \/ CallBatch
    \/ CallForwardWithTypes
    \/ CallForwardWithProximity
    \/ CallForwardWithBBox
    \/ CallReverseWithTypes
    \/ CallForwardLegacy
    \/ CallReverseLegacy
    \/ Discard

Spec == Init /\ [][Next]_vars

(***************************************************************************)
(* Properties.                                                             *)
(***************************************************************************)
\* the kind of options struct an operation takes
KindOf(op) ==
    CASE op \in {"Forward", "ForwardWithTypes", "ForwardWithProximity",
                 "ForwardWithBBox", "ForwardLegacy"} -> "forward"
      [] op = "ForwardStructured" -> "structured"
      [] op \in {"Reverse", "ReverseWithTypes", "ReverseLegacy"} -> "reverse"
      [] op = "Batch" -> "batch"

\* the options the last call was given: the struct behind its pointer as it
\* was when the call was made, every field unset for nil
Given == IF last.req.nil THEN ZeroStruct(TagsOf(KindOf(last.op))) ELSE last.req.val

\* C1: an empty token makes NewBase fail with the missing-token error, the
\* caller stops there with no client and no Geocode and nothing is ever sent;
\* every request that is sent carries a token that is not empty.
C1_EmptyTokenFailsFast ==
    /\ (pc # "start" /\ token = "") =>
          /\ newErr = ErrMissingToken
          /\ pc = "fatal"
          /\ base = NilBase
          /\ gc = NoGeocode
          /\ last = NoCall
    /\ last # NoCall => \A i \in 1..Len(last.sent) : last.sent[i].token # ""

C1_Witness == token = "" /\ pc = "fatal" /\ newErr = ErrMissingToken

\* C2: a field of the options struct that the caller left unset has no key
\* in the query string Forward, ForwardStructured, Reverse or Batch sends:
\* the string parsed back holds no such key.
C2_OmittedFieldsAbsent ==
    last.op \in {"Forward", "ForwardStructured", "Reverse", "Batch"} =>
        LET parsed == ParseQuery(last.sent[1].rawQuery)
        IN  \A t \in Range(TagsOf(KindOf(last.op))) :
                ~IsSet(t, Given) => t.key \notin DOMAIN parsed

C2_Witness ==
    /\ last.op = "Forward"
    /\ ~last.req.nil
    /\ last.req.val.Limit = 1
    /\ ParseQuery(last.sent[1].rawQuery) = [limit |-> "1", q |-> last.args.place]

RECURSIVE CommaList(_)
\* the names in list order with one comma between neighbours
CommaList(names) ==
    IF Len(names) = 1 THEN names[1]
    ELSE CommaList(SubSeq(names, 1, Len(names) - 1)) \o "," \o names[Len(names)]

\* str neither starts nor ends with a comma and holds no two in a row
NoStraySeparator(str) ==
    /\ SubSeq(str, 1, 1) # ","
    /\ SubSeq(str, Len(str), Len(str)) # ","
    /\ \A i \in 1..(Len(str) - 1) : SubSeq(str, i, i + 1) # ",,"

\* C3: with a list of types that is not empty, ForwardWithTypes and
\* ReverseWithTypes send the request Forward and Reverse send for the same
\* options with Types set by hand to the names joined by commas in list
\* order, and the value has no leading, trailing or doubled comma.
C3_TypesHelperEqualsManual ==
    (last.op \in {"ForwardWithTypes", "ReverseWithTypes"} /\ Len(last.args.types) > 0) =>
        LET manual == Ref([Given EXCEPT !.Types = CommaList(last.args.types)])
        IN  /\ last.op = "ForwardWithTypes" =>
                 last.sent = Forward(gc, last.args.place, manual, last.env).sent
            /\ last.op = "ReverseWithTypes" =>
                 last.sent = Reverse(gc, last.args.loc, manual, last.env).sent
            /\ NoStraySeparator(last.sent[1].query["types"])

C3_Witness ==
    /\ last.op = "ForwardWithTypes"
    /\ last.args.types = <<Address, Place>>
    /\ last.sent[1].query["types"] = "address,place"

\* C4: ForwardWithProximity with {-74.0, 40.7} sends what Forward sends with
\* Proximity set by hand to "-74.0,40.7".
C4_ProximityAsDocumented ==
    (/\ last.op = "ForwardWithProximity"
     /\ last.args.proximity = <<F(TRUE, 74, 0), F(FALSE, 407, 1)>>) =>
        /\ last.sent[1].query["proximity"] = "-74.0,40.7"
        /\ last.sent = Forward(gc, last.args.place,
                               Ref([Given EXCEPT !.Proximity = "-74.0,40.7"]),
                               last.env).sent

\* the result the provider has for query bq
AnswersQuery(collection, bq) ==
    \A i \in 1..Len(collection.Features) :
        collection.Features[i].match = MarshalQuery(bq)

\* C5: a Batch call with n queries that returns no error returns n entries,
\* the i-th being the provider's result for the i-th query.
C5_BatchOnePerQueryInOrder ==
    (last.op = "Batch" /\ last.err = NoErr) =>
        /\ Len(last.resp.Batch) = Len(last.args.queries)
        /\ \A i \in 1..Len(last.args.queries) :
              /\ last.resp.Batch[i].Type = "FeatureCollection"
              /\ AnswersQuery(last.resp.Batch[i], last.args.queries[i])

C5_Witness ==
    /\ last.op = "Batch"
    /\ last.err = NoErr
    /\ Len(last.args.queries) = 3
    /\ Len(last.resp.Batch) = 3
    /\ last.args.queries[1] # last.args.queries[2]
    /\ last.args.queries[2] # last.args.queries[3]
    /\ \A i \in 1..3 : Len(last.resp.Batch[i].Features) > 0

\* C6: a Batch call ends in one of two ways: no error and every sub-result,
\* or an error and a response that holds no sub-result.
C6_BatchAllOrError ==
    last.op = "Batch" =>
        \/ /\ last.err = NoErr
           /\ Len(last.resp.Batch) = Len(last.args.queries)
        \/ /\ last.err # NoErr
           /\ last.resp.Batch = <<>>

C6_Witness ==
    /\ last.op = "Batch"
    /\ last.err = ErrDecode
    /\ Len(last.args.queries) = 3
    /\ last.resp = EmptyBatchResponse

\* C7: every call, of a primitive or of a wrapper, whether it succeeds or
\* fails, sends exactly one HTTP request.
C7_OneRequestPerCall == last # NoCall => Len(last.sent) = 1

C7_Witness ==
    /\ last.op = "ForwardWithTypes"
    /\ last.err = ErrTransport
    /\ Len(last.sent) = 1

\* C8: the caller gets the unauthorized error on HTTP 401, the rate limit
\* error on HTTP 429, an error on a transport or a decode failure, and no
\* error only when the round trip succeeded.
C8_ErrorsSurfaceUnchanged ==
    last # NoCall =>
        /\ last.env.kind = "unauthorized" => last.err = ErrorAPIUnauthorized
        /\ last.env.kind = "ratelimit" => last.err = ErrorAPILimitExceeded
        /\ last.env.kind = "transport" => last.err = ErrTransport
        /\ last.env.kind = "malformed" => last.err = ErrDecode
        /\ last.err = NoErr <=> last.env.kind = "ok"

C8_Witness ==
    /\ last.op = "Reverse"
    /\ last.env.kind = "unauthorized"
    /\ last.err = ErrorAPIUnauthorized

\* C9: Forward with Limit 1 sends limit=1 and, when it returns no error,
\* returns a collection of at most one feature.
C9_LimitOneAtMostOneFeature ==
    (last.op = "Forward" /\ Given.Limit = 1) =>
        /\ "limit" \in DOMAIN last.sent[1].query
        /\ last.sent[1].query["limit"] = "1"
        /\ last.err = NoErr =>
              /\ Len(last.resp.FeatureCollection) = 1
              /\ Len(last.resp.FeatureCollection[1].Features) <= 1

C9_Witness ==
    /\ last.op = "Forward"
    /\ Given.Limit = 1
    /\ last.env.n = 2
    /\ last.err = NoErr
    /\ Len(last.resp.FeatureCollection[1].Features) = 1

\* C10: a Reverse, Forward or ForwardStructured call that returns no error
\* returns a collection whose type tag is "FeatureCollection".
C10_SuccessIsFeatureCollection ==
    (/\ last.op \in {"Reverse", "Forward", "ForwardStructured"}
     /\ last.err = NoErr) =>
        /\ Len(last.resp.FeatureCollection) = 1
        /\ last.resp.FeatureCollection[1].Type = "FeatureCollection"

C10_Witness ==
    /\ last.op = "Reverse"
    /\ last.err = NoErr
    /\ last.resp.FeatureCollection[1].Type = "FeatureCollection"
    /\ Len(last.resp.FeatureCollection[1].Features) > 0

\* C11: no call changes data another call reads: the options struct a call
\* was given holds afterwards what the caller wrote in it, so a later Forward
\* or Reverse given the same struct sends what it would have sent before.
C11_CallsShareNoState ==
    (last # NoCall /\ ~last.req.nil) =>
        /\ opts.val = last.req.val
        /\ \A env \in Envs :
              /\ KindOf(last.op) = "forward" =>
                    \A place \in Places :
                        Forward(gc, place, Ref(opts.val), env).sent
                            = Forward(gc, place, last.req, env).sent
              /\ KindOf(last.op) = "reverse" =>
                    \A loc \in Locations :
                        Reverse(gc, loc, Ref(opts.val), env).sent
                            = Reverse(gc, loc, last.req, env).sent

\* the query string of the last call's request, parsed back
SentQuery == ParseQuery(last.sent[1].rawQuery)

\* whether the call passed true as its permanent argument
AskedPermanent == Len(last.args.permanent) > 0 /\ last.args.permanent[1]

\* C12: ForwardLegacy with true sends what Forward sends for the same options
\* with Permanent set; with false or no argument it sends what Forward sends
\* for the options as given, a Permanent already set included; ReverseLegacy
\* sends what Reverse sends and returns what Reverse returns.
C12_LegacyEqualsCurrent ==
    /\ last.op = "ForwardLegacy" =>
          LET same == IF AskedPermanent
                      THEN Ref([Given EXCEPT !.Permanent = TRUE])
                      ELSE Ref(Given)
              run  == Forward(gc, last.args.place, same, last.env)
              sent == SentQuery
          IN  /\ last.sent = run.sent
              /\ last.resp = run.resp
              /\ last.err = run.err
              /\ (AskedPermanent \/ Given.Permanent) <=>
                    ("permanent" \in DOMAIN sent /\ sent["permanent"] = "true")
    /\ last.op = "ReverseLegacy" =>
          LET run == Reverse(gc, last.args.loc, last.req, last.env)
          IN  /\ last.sent = run.sent
              /\ last.resp = run.resp
              /\ last.err = run.err

\* a struct whose Permanent is set, given with an explicit false
C12_Witness ==
    /\ last.op = "ForwardLegacy"
    /\ ~last.req.nil
    /\ last.req.val.Permanent
    /\ last.args.permanent = <<FALSE>>
    /\ last.sent[1].query["permanent"] = "true"

\* the parsed query string `sent` holds every option the caller set, under
\* its key and with its value, and beside the keys in `more` no other key
CarriesOptions(sent, more) ==
    LET tags == TagsOf(KindOf(last.op))
        set  == {t \in Range(tags) : IsSet(t, Given)}
    IN  /\ DOMAIN sent = {t.key : t \in set} \cup more
        /\ \A t \in set : sent[t.key] = ValueString(t.kind, Given[t.field])

\* C13: Forward sends a GET to search/geocode/v6/forward with q the place
\* text beside the options, given or not; ForwardStructured sends a GET to the
\* same path with no q; Reverse sends a GET to search/geocode/v6/reverse with
\* longitude and latitude those of the location; Batch sends a POST to
\* search/geocode/v6/batch whose body lists the queries in the caller's order.
C13_EndpointAndMandatoryParams ==
    LET sent == SentQuery
    IN
    /\ last.op = "Forward" =>
          /\ last.sent[1].method = "GET"
          /\ last.sent[1].path = "search/geocode/v6/forward"
          /\ CarriesOptions(sent, {"q"})
          /\ sent["q"] = last.args.place
    /\ last.op = "ForwardStructured" =>
          /\ last.sent[1].method = "GET"
          /\ last.sent[1].path = "search/geocode/v6/forward"
          /\ CarriesOptions(sent, {})
          /\ "q" \notin DOMAIN sent
    /\ last.op = "Reverse" =>
          /\ last.sent[1].method = "GET"
          /\ last.sent[1].path = "search/geocode/v6/reverse"
          /\ CarriesOptions(sent, {"longitude", "latitude"})
          /\ sent["longitude"] = FormatFloat(last.args.loc.Longitude)
          /\ sent["latitude"] = FormatFloat(last.args.loc.Latitude)
    /\ last.op = "Batch" =>
          /\ last.sent[1].method = "POST"
          /\ last.sent[1].path = "search/geocode/v6/batch"
          /\ CarriesOptions(sent, {})
          /\ Len(last.sent[1].body) = Len(last.args.queries)
          /\ \A i \in 1..Len(last.args.queries) :
                last.sent[1].body[i] = MarshalQuery(last.args.queries[i])

\* a structured search with one field set: that key alone is sent
C13_Witness ==
    /\ last.op = "ForwardStructured"
    /\ ~last.req.nil
    /\ last.req.val.Street = "us"
    /\ last.sent[1].path = "search/geocode/v6/forward"
    /\ SentQuery = [street |-> "us"]

\* the last call made again, in the same surroundings and with the same
\* arguments, but with req as its options pointer
Again(req) ==
    CASE last.op = "Forward" -> Forward(gc, last.args.place, req, last.env)
      [] last.op = "ForwardStructured" -> ForwardStructured(gc, req, last.env)
      [] last.op = "Reverse" -> Reverse(gc, last.args.loc, req, last.env)
      [] last.op = "Batch" -> Batch(gc, last.args.queries, req, last.env)
      [] last.op = "ForwardWithTypes" ->
            ForwardWithTypes(gc, last.args.place, last.args.types, req, last.env)
      [] last.op = "ForwardWithProximity" ->
            ForwardWithProximity(gc, last.args.place, last.args.proximity, req, last.env)
      [] last.op = "ForwardWithBBox" ->
            ForwardWithBBox(gc, last.args.place, last.args.bbox, req, last.env)
      [] last.op = "ReverseWithTypes" ->
            ReverseWithTypes(gc, last.args.loc, last.args.types, req, last.env)
      [] last.op = "ForwardLegacy" ->
            ForwardLegacy(gc, last.args.place, req, last.args.permanent, last.env)
      [] last.op = "ReverseLegacy" -> ReverseLegacy(gc, last.args.loc, req, last.env)

\* the last call sent and returned what `run` sends and returns
SameOutcome(run) ==
    /\ last.sent = run.sent
    /\ last.resp = run.resp
    /\ last.err = run.err

\* C14: a call given nil options sends and returns what the same call given
\* a struct with every field unset sends and returns, and the other way
\* round; a call given nil fails only when the round trip fails.
C14_NilEqualsEmptyOptions ==
    LET empty == ZeroStruct(TagsOf(KindOf(last.op)))
    IN  /\ (last # NoCall /\ last.req.nil) =>
              /\ SameOutcome(Again(Ref(empty)))
              /\ Len(last.sent) = 1
              /\ last.err # NoErr => last.env.kind # "ok"
        /\ (last # NoCall /\ ~last.req.nil /\ last.req.val = empty) =>
              SameOutcome(Again(NilReq))

\* a wrapper given nil options and a type: the type is sent
C14_Witness ==
    /\ last.op = "ReverseWithTypes"
    /\ last.req.nil
    /\ last.args.types = <<Address>>
    /\ last.err = NoErr
    /\ SentQuery["types"] = "address"

\* the wrappers that convert a typed input into one field of the options
Converters ==
    {"ForwardWithTypes", "ForwardWithProximity", "ForwardWithBBox", "ReverseWithTypes"}

\* the field the last call's wrapper converts its typed input into
ConvertedField ==
    CASE last.op \in {"ForwardWithTypes", "ReverseWithTypes"} -> "Types"
      [] last.op = "ForwardWithProximity" -> "Proximity"
      [] last.op = "ForwardWithBBox" -> "BBox"

\* whether the typed input of the last call is one the wrapper converts
Convertible ==
    CASE last.op \in {"ForwardWithTypes", "ReverseWithTypes"} ->
            Len(last.args.types) > 0
      [] last.op = "ForwardWithProximity" -> Len(last.args.proximity) = 2
      [] last.op = "ForwardWithBBox" -> Len(last.args.bbox) = 4

\* the last wrapper call made as a call of the operation it delegates to
Delegated(req) ==
    IF KindOf(last.op) = "forward"
    THEN Forward(gc, last.args.place, req, last.env)
    ELSE Reverse(gc, last.args.loc, req, last.env)

\* C15: a converting wrapper leaves every field but the one it converts as
\* the caller gave it, in the struct and in the values sent; given no types, a
\* proximity not of length 2 or a box not of length 4 it changes no field and
\* sends what the operation beneath sends for the options as given, a value
\* the caller put in that field included.
C15_WrapperTouchesOneField ==
    last.op \in Converters =>
        LET tags   == TagsOf(KindOf(last.op))
            others == {t \in Range(tags) : t.field # ConvertedField}
            own    == CHOOSE t \in Range(tags) : t.field = ConvertedField
            sent   == last.sent[1].query
        IN  /\ \A t \in others :
                  /\ ~last.req.nil => opts.val[t.field] = last.req.val[t.field]
                  /\ IsSet(t, Given) <=> t.key \in DOMAIN sent
                  /\ IsSet(t, Given) =>
                        sent[t.key] = ValueString(t.kind, Given[t.field])
            /\ ~Convertible =>
                  /\ ~last.req.nil => opts.val = last.req.val
                  /\ SameOutcome(Delegated(last.req))
                  /\ IsSet(own, Given) <=> own.key \in DOMAIN sent
                  /\ IsSet(own, Given) => sent[own.key] = Given[own.field]

\* a box of three numbers given with a struct that holds a box already
C15_Witness ==
    /\ last.op = "ForwardWithBBox"
    /\ Len(last.args.bbox) = 3
    /\ ~last.req.nil
    /\ last.req.val.BBox = "-77.1,38.8,-76.9,39.0"
    /\ opts.val = last.req.val
    /\ last.sent[1].rawQuery = "bbox=-77.1%2C38.8%2C-76.9%2C39.0&q=New+York"

====
